---- MODULE Spec2Model ----
(***************************************************************************)
(* Model of the session / socket lifecycle of the Cuoral chat provider     *)
(* (src/src/context/CuoralContext.js) together with the screen handlers    *)
(* that call it (ChatScreen.js, ChatDetailsScreen.js, CuoralModal.js).     *)
(*                                                                         *)
(* JavaScript runs every handler to its next await without preemption, so  *)
(* one action is the code between two awaits that wait for the outside     *)
(* world (a fetch response, the permission dialog).  An await of an        *)
(* already settled promise only yields to microtasks, so the caller's      *)
(* continuation belongs to the same action as the response it follows.     *)
(* The awaits of AsyncStorage (getItem, setItem, removeItem) are taken      *)
(* together with the code that follows them.                               *)
(***************************************************************************)
EXTENDS Integers, Sequences, FiniteSets

\* ---------------------------------------------------------------- bounds
MaxFlows == 3       \* async flows (setupCuoral, clear, retry, details) started
MaxSid == 2         \* session ids the backend hands out: 1 .. MaxSid
MaxSockets == 2     \* sockets created by connectSocket
MaxTime == 2        \* timestamps and device clock values: 1 .. MaxTime
MaxLog == 2         \* entries in the messages array
MaxChatLog == 3     \* entries in the messages array of an established chat

\* ------------------------------------------------------------- constants
NoSession == 0      \* null session id / empty AsyncStorage key
NoSocket == 0       \* socketRef.current === null
NoError == "null"   \* sessionError === null
TempIdBase == 100   \* temp_msg_... / socket_msg_... ids never equal a time_created

SessionIds == 1..MaxSid
Times == 1..MaxTime
Texts == {"hi", "yo"}

VARIABLES
    store,                  \* AsyncStorage[SESSION_STORAGE_KEY]
    sessionId, sessionStatus, isLoadingSession, sessionError,
    sessionProfileExists, messages, email, name,
    socks, socketRef,       \* every socket made by io(), and socketRef.current
    flows,                  \* the async functions in flight
    effectDeps,             \* sessionId/sessionProfileExists seen by the last run of the effect
    props,                  \* initialEmail / initial name of the provider
    nextSid,                \* next id the backend assigns in initiate-session
    clock,                  \* the last value read from the device clock (Date.now())
    last                    \* the last step and what it did to the outside (observation only)

vars == <<store, sessionId, sessionStatus, isLoadingSession, sessionError,
          sessionProfileExists, messages, email, name, socks, socketRef, flows,
          effectDeps, props, nextSid, clock, last>>

\* ------------------------------------------------------------ message log

\* mutant: the sort is not stable, an entry goes before the entries of its
\* own timestamp
RECURSIVE InsertBeforeEqual(_, _)
InsertBeforeEqual(s, m) ==
    IF s = <<>> THEN <<m>>
    ELSE IF s[Len(s)].timestamp < m.timestamp THEN Append(s, m)
    ELSE Append(InsertBeforeEqual(SubSeq(s, 1, Len(s) - 1), m), s[Len(s)])

\* (a, b) => new Date(a.timestamp).getTime() - new Date(b.timestamp).getTime()
\* Array.prototype.sort is stable: an entry goes after the entries that are
\* not later than it.
RECURSIVE InsertByTime(_, _)
InsertByTime(s, m) ==
    IF s = <<>> THEN <<m>>
    ELSE IF s[Len(s)].timestamp <= m.timestamp THEN Append(s, m)
    ELSE Append(InsertByTime(SubSeq(s, 1, Len(s) - 1), m), s[Len(s)])

\* mutant: the log is left in arrival order
SortKeepsArrivalOrder(s) == s

RECURSIVE SortByTime(_)
SortByTime(s) ==
    IF s = <<>> THEN <<>>
    ELSE InsertByTime(SortByTime(SubSeq(s, 1, Len(s) - 1)), s[Len(s)])

IsSorted(s) == \A i \in 1..Len(s) : \A j \in 1..Len(s) : i < j => s[i].timestamp <= s[j].timestamp

\* a wire record of data.messages in the get-single-session response
WireRecord(t, text, mtype, atype) ==
    [time_created |-> t, message |-> text, message_type |-> mtype,
     author_type |-> atype, file_url |-> "null"]

\* mutant: the sender of a history record is derived from author_type alone
LoadedMessageByAuthor(msg) ==
    [id |-> msg.time_created,
     text |-> msg.message,
     sender |-> IF msg.author_type = "HUMAN" THEN "admin" ELSE "bot",
     timestamp |-> msg.time_created,
     fileUrl |-> msg.file_url,
     conversationId |-> NoSession]

\* data.messages.map(msg => ({...}))
LoadedMessage(msg) ==
    [id |-> msg.time_created,
     text |-> msg.message,
     sender |-> IF msg.message_type = "REPLY"
                THEN (IF msg.author_type = "HUMAN" THEN "admin" ELSE "bot")
                ELSE "user",
     timestamp |-> msg.time_created,
     fileUrl |-> msg.file_url,
     conversationId |-> NoSession]

RECURSIVE MapLoaded(_)
MapLoaded(h) == IF h = <<>> THEN <<>> ELSE <<LoadedMessage(Head(h))>> \o MapLoaded(Tail(h))

loadedMessages(h) == SortByTime(MapLoaded(h))

\* histories the backend can return
Histories ==
    { <<>>,
      <<WireRecord(MaxTime, "hi", "REPLY", "BOT")>>,
      <<WireRecord(MaxTime, "yo", "QUERY", "HUMAN"), WireRecord(1, "hi", "REPLY", "HUMAN")>> }

\* ------------------------------------------------------- realtime channel

\* inbound event of a socket: {room, messageData: {...}}; time_created = 0
\* stands for a missing (falsy) time_created, hasData = FALSE for an event
\* without messageData
EventShapes ==
    [kind : {"send_message", "send_file"}, hasData : BOOLEAN, room : SessionIds,
     message_type : {"REPLY", "QUERY"}, channel : {"external", "internal"},
     time_created : 0..MaxTime, message : Texts, author_type : {"HUMAN", "BOT"},
     file_url : {"null", "f"}]

\* Replies on the external channel in every shape (send_message without and
\* send_file with a file), and one event of every kind the filter drops
Events ==
    { ev \in EventShapes :
        /\ ev.file_url = (IF ev.kind = "send_file" THEN "f" ELSE "null")
        /\ \/ ev.hasData /\ ev.message_type = "REPLY" /\ ev.channel = "external"
           \/ /\ ~(ev.hasData /\ ev.message_type = "REPLY" /\ ev.channel = "external")
              /\ ev.hasData => ev.message_type = "QUERY" \/ ev.channel = "internal"
              /\ ~ev.hasData => ev.message_type = "QUERY" /\ ev.channel = "internal"
              /\ ev.kind = "send_message"
              /\ ev.room = 1
              /\ ev.time_created = MaxTime
              /\ ev.message = "hi"
              /\ ev.author_type = "BOT" }

\* the events the session flows are explored with: one reply per room and
\* the events the filter drops
CoreEvents ==
    { ev \in Events :
        /\ ev.kind = "send_message"
        /\ ev.message = "hi"
        /\ ev.author_type = "BOT"
        /\ ev.time_created = MaxTime }

\* the events the message log is explored with: every reply of room 1 (the
\* session of a fresh install) and the core events
LogEvents == {ev \in Events : ev.room = 1} \cup CoreEvents

\* the payload of sendMessageViaSocket handed back by the backend to room 1:
\* a QUERY of a HUMAN author on the external channel
Echoes ==
    { ev \in EventShapes :
        /\ ev.kind = "send_message"
        /\ ev.hasData
        /\ ev.message_type = "QUERY"
        /\ ev.channel = "external"
        /\ ev.author_type = "HUMAN"
        /\ ev.file_url = "null"
        /\ ev.time_created = MaxTime
        /\ ev.room = 1 }

\* the events an established chat of session 1 is explored with: its text
\* replies that carry a time_created, and the echoes
ChatEvents ==
    { ev \in Events :
        /\ ev.kind = "send_message"
        /\ ev.hasData /\ ev.message_type = "REPLY" /\ ev.channel = "external"
        /\ ev.room = 1
        /\ ev.time_created # 0 } \cup Echoes

\* the values Date.now() can return for the handler of ev, which reads the
\* clock only when time_created is missing
Nows(ev) == IF ev.time_created = 0 THEN clock..MaxTime ELSE {clock}

\* mutant: the filter does not test message_type
AcceptsAnyType(ev, sId) ==
    /\ ev.hasData
    /\ ev.channel = "external"
    /\ ev.room = sId

\* if (isReply && isExternalChannel && incomingConversationId === sId)
\* sId is the argument connectSocket was called with
Accepts(ev, sId) ==
    /\ ev.hasData
    /\ ev.message_type = "REPLY"
    /\ ev.channel = "external"
    /\ ev.room = sId

\* newMessageFromSocket / newFileMessageFromSocket
newMessageFromSocket(ev, now, rnd) ==
    [id |-> IF ev.time_created # 0 THEN ev.time_created ELSE TempIdBase + rnd,
     text |-> ev.message,
     sender |-> IF ev.author_type = "HUMAN" THEN "admin" ELSE "bot",
     timestamp |-> IF ev.time_created # 0 THEN ev.time_created ELSE now,
     fileUrl |-> ev.file_url,
     conversationId |-> ev.room]

\* mutant: the duplicate test compares ids only
IsDuplicateByIdOnly(prevMessages, m) ==
    /\ prevMessages # <<>>
    /\ prevMessages[Len(prevMessages)].id = m.id

\* mutant: the duplicate test scans the whole log
IsDuplicateOfAnyEntry(prevMessages, m) ==
    \E j \in 1..Len(prevMessages) :
        \/ prevMessages[j].id = m.id
        \/ /\ prevMessages[j].text = m.text
           /\ prevMessages[j].sender = m.sender
           /\ prevMessages[j].fileUrl = m.fileUrl

\* the duplicate test of the setMessages updater
IsDuplicate(prevMessages, m) ==
    /\ prevMessages # <<>>
    /\ LET lastMessage == prevMessages[Len(prevMessages)]
       IN  \/ lastMessage.id = m.id
           \/ /\ lastMessage.text = m.text
              /\ lastMessage.sender = m.sender
              /\ lastMessage.fileUrl = m.fileUrl

\* mutant: the side effects run before the duplicate test
NotifiesBeforeDuplicateTest(prevMessages, m) == m.sender \in {"bot", "admin"}

\* does the updater call playNotificationSound and sendLocalNotification
Notifies(prevMessages, m) ==
    /\ ~IsDuplicate(prevMessages, m)
    /\ m.sender \in {"bot", "admin"}

\* mutant: the updater inserts without the duplicate test
MergeWithoutDuplicateTest(prevMessages, m) == SortByTime(Append(prevMessages, m))

\* the setMessages updater of the send_message / send_file handlers
MergeFromSocket(prevMessages, m) ==
    IF IsDuplicate(prevMessages, m) THEN prevMessages
    ELSE SortByTime(Append(prevMessages, m))

\* what the two side effects of an insertion can do: playNotificationSound
\* can fail inside its try block, the promise of sendLocalNotification can
\* reject
SideEffectOutcomes == [sound : {"ok", "fails"}, notif : {"ok", "rejects"}]

AllOk == [sound |-> "ok", notif |-> "ok"]

\* mutant: a failing side effect aborts the updater
UpdaterAbortsOnFailure(prevMessages, m, fx) ==
    IF Notifies(prevMessages, m) /\ fx # AllOk THEN prevMessages
    ELSE MergeFromSocket(prevMessages, m)

\* the log the updater returns when its side effects end as fx: both are
\* async functions called without await, and playNotificationSound catches
\* its own errors, so no failure reaches the updater
Updater(prevMessages, m, fx) == MergeFromSocket(prevMessages, m)

\* addMessageToState
addMessageToState(prevMessages, m) == Append(prevMessages, m)

NoSock == [room |-> NoSession, st |-> "none"]

\* socketRef.current.off(); socketRef.current.disconnect()
Disconnected(sk, i) == [sk EXCEPT ![i].st = "closed"]

\* mutant: the previous socket is dropped from socketRef but not disconnected
connectSocketWithoutTeardown(sk, ref, n, sId) ==
    [socks |-> [sk EXCEPT ![n] = [room |-> sId, st |-> "connecting"]], ref |-> n]

\* connectSocket(sId): the sockets and socketRef.current after the call
connectSocket(sk, ref, n, sId) ==
    LET old == IF ref # NoSocket THEN Disconnected(sk, ref) ELSE sk
    IN  [socks |-> [old EXCEPT ![n] = [room |-> sId, st |-> "connecting"]],
         ref |-> n]

\* number of sockets made so far
Created(sk) == Cardinality({i \in 1..MaxSockets : sk[i].st # "none"})

\* a socket that can still run its listeners
Live(sk, i) == sk[i].st \in {"connecting", "connected"}

\* ------------------------------------------------------------------ flows

\* an async call chain: where it waits (pc), who started it (kind), whether its
\* getSession was called by initiateSession (via), the session id of its
\* request (sid), the sessionId / sessionProfileExists its closure captured;
\* switched records that clearSessionAndInitiateNew ran during its hydrate,
\* was the state of the controller that its setProfile call or its Retry
\* replaced by loading
NoFlow == [pc |-> "idle", kind |-> "none", via |-> "none", sid |-> NoSession,
           cSid |-> NoSession, cProf |-> FALSE, switched |-> FALSE, was |-> "none"]

InFlight(f) == f.pc \in {"reg", "create", "fetch", "setprof"}

Started(fl) == Cardinality({i \in 1..MaxFlows : fl[i].pc # "idle"})

\* the provider's props: everything given, or nothing
PropsSet == { [email |-> "", name |-> ""], [email |-> "e", name |-> "n"] }

Init ==
    /\ store \in {NoSession, 1}
    /\ sessionId = NoSession
    /\ sessionStatus = "loading"
    /\ isLoadingSession = TRUE
    /\ sessionError = NoError
    /\ sessionProfileExists = FALSE
    /\ messages = <<>>
    /\ props \in PropsSet
    /\ email = props.email
    /\ name = props.name
    /\ socks = [i \in 1..MaxSockets |-> NoSock]
    /\ socketRef = NoSocket
    /\ flows = [i \in 1..MaxFlows |-> NoFlow]
    /\ effectDeps = [mounted |-> FALSE, sessionId |-> NoSession, sessionProfileExists |-> FALSE]
    /\ nextSid = IF store = NoSession THEN 1 ELSE 2
    /\ clock = 1
    /\ last = [op |-> "init"]

\* first free slot of flows
NewFlow(fl) == Started(fl) + 1

Done == [NoFlow EXCEPT !.pc = "done"]

\* setupCuoral, after the session was loaded or initiated:
\* if (sessionId && !sessionProfileExists && (initialEmail || ...)) with the
\* sessionId and sessionProfileExists of the render that ran the effect
StartsProfile(f) ==
    /\ f.kind = "setup"
    /\ f.cSid # NoSession
    /\ ~f.cProf
    /\ props.email # ""
    /\ props.name # ""

\* the effect of the provider runs after the first render and after every
\* render in which sessionId or sessionProfileExists differ from the last run
EffectPending ==
    \/ ~effectDeps.mounted
    \/ effectDeps.sessionId # sessionId
    \/ effectDeps.sessionProfileExists # sessionProfileExists

\* React runs the pending effects before it handles the next user event
Interactive == ~EffectPending

\* the effect runs setupCuoral to its first await
\* (registerForPushNotificationsAsync)
EffectRun ==
    /\ EffectPending
    /\ Started(flows) < MaxFlows
    /\ effectDeps' = [mounted |-> TRUE, sessionId |-> sessionId,
                      sessionProfileExists |-> sessionProfileExists]
    /\ flows' = [flows EXCEPT ![NewFlow(flows)] =
                    [pc |-> "reg", kind |-> "setup", via |-> "none", sid |-> NoSession,
                     cSid |-> sessionId, cProf |-> sessionProfileExists,
                     switched |-> FALSE, was |-> "none"]]
    /\ isLoadingSession' = TRUE
    /\ sessionStatus' = "loading"
    /\ last' = [op |-> "effect"]
    /\ UNCHANGED <<store, sessionId, sessionError, sessionProfileExists, messages,
                   email, name, socks, socketRef, props, nextSid, clock>>

\* mutant: setupCuoral ignores the stored id and always initiates a session
SetupReadIgnoringStore(i) ==
    /\ flows[i].pc = "reg"
    /\ isLoadingSession' = TRUE
    /\ sessionError' = NoError
    /\ sessionStatus' = "loading"
    /\ flows' = [flows EXCEPT ![i].pc = "create"]
    /\ messages' = <<>>
    /\ sessionProfileExists' = FALSE
    /\ last' = [op |-> "read"]
    /\ UNCHANGED <<store, sessionId, email, name, socks, socketRef, effectDeps,
                   props, nextSid, clock>>

\* setupCuoral after AsyncStorage.getItem: getSession(storedSessionId) up to
\* its fetch, or initiateSession(...) up to its fetch
SetupRead(i) ==
    /\ flows[i].pc = "reg"
    /\ isLoadingSession' = TRUE
    /\ sessionError' = NoError
    /\ sessionStatus' = "loading"
    /\ IF store # NoSession
       THEN /\ flows' = [flows EXCEPT ![i].pc = "fetch", ![i].via = "direct", ![i].sid = store]
            /\ UNCHANGED <<messages, sessionProfileExists>>
       ELSE /\ flows' = [flows EXCEPT ![i].pc = "create"]
            /\ messages' = <<>>
            /\ sessionProfileExists' = FALSE
    /\ last' = [op |-> "read"]
    /\ UNCHANGED <<store, sessionId, email, name, socks, socketRef, effectDeps,
                   props, nextSid, clock>>

\* the state of the controller by its status and profile flag: an active
\* session without a complete profile is pending its profile
ControllerState(status, profileExists) ==
    IF status = "active" /\ ~profileExists THEN "profilePending" ELSE status

\* the flow after its callee returned leaving the controller in st: setupCuoral
\* may go on to setProfile (up to its fetch), every other caller is finished
AfterReturn(i, st) ==
    IF StartsProfile(flows[i])
    THEN [flows EXCEPT ![i].pc = "setprof", ![i].via = "none", ![i].sid = flows[i].cSid,
                       ![i].switched = FALSE, ![i].was = st]
    ELSE [flows EXCEPT ![i] = Done]

\* initiate-session answered with status and session_id: the id is stored and
\* getSession(data.session_id) runs up to its fetch
CreateOk(i) ==
    /\ flows[i].pc = "create"
    /\ nextSid <= MaxSid
    /\ sessionId' = nextSid
    /\ store' = nextSid
    /\ nextSid' = nextSid + 1
    /\ isLoadingSession' = TRUE
    /\ sessionError' = NoError
    /\ sessionStatus' = "loading"
    /\ flows' = [flows EXCEPT ![i].pc = "fetch", ![i].via = "init", ![i].sid = nextSid]
    /\ last' = [op |-> "createOk", kind |-> flows[i].kind]
    /\ UNCHANGED <<sessionProfileExists, messages, email, name, socks, socketRef,
                   effectDeps, props, clock>>

\* initiate-session failed (!response.ok, a network error, no session_id)
CreateFail(i) ==
    /\ flows[i].pc = "create"
    /\ flows' = AfterReturn(i, "error")
    /\ IF StartsProfile(flows[i])
       THEN /\ sessionError' = NoError
            /\ sessionStatus' = "loading"
            /\ isLoadingSession' = TRUE
       ELSE /\ sessionError' = "err"
            /\ sessionStatus' = "error"
            /\ isLoadingSession' = FALSE
    /\ last' = [op |-> "createFail"]
    /\ UNCHANGED <<store, sessionId, sessionProfileExists, messages, email, name,
                   socks, socketRef, effectDeps, props, nextSid, clock>>

\* what get-single-session can answer for a session
FetchData ==
    { d \in [status : {"active", "closed"}, email : {"", "e"}, name : {"", "n"},
              messages : Histories] : d.email = "" => d.name = "" }

\* mutant: the socket is connected only for a session with a complete profile
SocketsAfterHydrateWithProfile(data, sId) ==
    IF data.status = "closed" \/ data.email = "" \/ data.name = ""
    THEN [socks |-> socks, ref |-> socketRef]
    ELSE connectSocket(socks, socketRef, Created(socks) + 1, sId)

\* getSession: the socket is connected unless data.status === 'closed'
SocketsAfterHydrate(data, sId) ==
    IF data.status = "closed"
    THEN [socks |-> socks, ref |-> socketRef]
    ELSE connectSocket(socks, socketRef, Created(socks) + 1, sId)

\* the status a successful hydrate leaves: getSession sets data.status, and
\* initiateSession then sets active whenever its getSession returned true
StatusAfterHydrate(f, data) == IF f.via = "init" THEN "active" ELSE data.status

\* get-single-session answered with a session_id
FetchOk(i, data) ==
    /\ flows[i].pc = "fetch"
    /\ data.status # "closed" => Created(socks) < MaxSockets
    /\ sessionId' = flows[i].sid
    /\ email' = data.email
    /\ name' = data.name
    /\ sessionProfileExists' = (data.email # "" /\ data.name # "")
    /\ messages' = loadedMessages(data.messages)
    /\ socks' = SocketsAfterHydrate(data, flows[i].sid).socks
    /\ socketRef' = SocketsAfterHydrate(data, flows[i].sid).ref
    /\ flows' = AfterReturn(i, ControllerState(StatusAfterHydrate(flows[i], data),
                                               data.email # "" /\ data.name # ""))
    /\ IF StartsProfile(flows[i])
       THEN /\ sessionError' = NoError
            /\ sessionStatus' = "loading"
            /\ isLoadingSession' = TRUE
       ELSE /\ sessionError' = sessionError
            /\ sessionStatus' = StatusAfterHydrate(flows[i], data)
            /\ isLoadingSession' = FALSE
    /\ last' = [op |-> "fetchOk", closed |-> (data.status = "closed"),
                switched |-> flows[i].switched, via |-> flows[i].via,
                kind |-> flows[i].kind, was |-> flows[i].was, hist |-> data.messages,
                sound |-> 0, notif |-> 0]
    /\ UNCHANGED <<store, effectDeps, props, nextSid, clock>>

\* how get-single-session can fail: the id is unknown to the backend, or the
\* request fails otherwise (transport, another backend error)
FetchErrors == {"notfound", "network"}

\* getSession(storedSessionId) called by setupCuoral itself
IsStartupHydrate(f) == f.via = "direct" /\ f.kind = "setup"

\* mutant: a failed startup hydrate ends the flow in error, no fallback
FetchFailWithoutFallback(i, err) ==
    /\ flows[i].pc = "fetch"
    /\ flows' = [flows EXCEPT ![i] = Done]
    /\ sessionError' = "err"
    /\ sessionStatus' = "error"
    /\ isLoadingSession' = FALSE
    /\ last' = [op |-> "fetchFail", err |-> err, startup |-> IsStartupHydrate(flows[i]),
                via |-> flows[i].via, kind |-> flows[i].kind]
    /\ UNCHANGED <<store, sessionId, sessionProfileExists, messages, email, name,
                   socks, socketRef, effectDeps, props, nextSid, clock>>

\* get-single-session failed with err; setupCuoral falls through to
\* initiateSession whatever the error is
FetchFail(i, err) ==
    /\ flows[i].pc = "fetch"
    /\ IF IsStartupHydrate(flows[i])
       THEN /\ flows' = [flows EXCEPT ![i].pc = "create", ![i].via = "none",
                                     ![i].sid = NoSession, ![i].switched = FALSE]
            /\ sessionError' = NoError
            /\ sessionStatus' = "loading"
            /\ isLoadingSession' = TRUE
            /\ messages' = <<>>
            /\ sessionProfileExists' = FALSE
       ELSE /\ flows' = AfterReturn(i, "error")
            /\ UNCHANGED <<messages, sessionProfileExists>>
            /\ IF StartsProfile(flows[i])
               THEN /\ sessionError' = NoError
                    /\ sessionStatus' = "loading"
                    /\ isLoadingSession' = TRUE
               ELSE /\ sessionError' = "err"
                    /\ sessionStatus' = "error"
                    /\ isLoadingSession' = FALSE
    /\ last' = [op |-> "fetchFail", err |-> err, startup |-> IsStartupHydrate(flows[i]),
                via |-> flows[i].via, kind |-> flows[i].kind]
    /\ UNCHANGED <<store, sessionId, email, name, socks, socketRef, effectDeps,
                   props, nextSid, clock>>

\* the arguments of the setProfile call of a flow
ProfileArgs(f) ==
    IF f.kind = "setup" THEN [email |-> props.email, name |-> props.name]
    ELSE [email |-> "e", name |-> "n"]

\* observation: is the successful setProfile call of flow f the second of two
\* successive successful calls with the same arguments
RepeatsLastProfile(f) ==
    /\ last.op = "profileOk"
    /\ last.sid = f.sid
    /\ last.email = ProfileArgs(f).email
    /\ last.name = ProfileArgs(f).name

\* mutant: a repeated setProfile does not leave the profile as it was
SetProfileOkOnceOnly(i) ==
    /\ flows[i].pc = "setprof"
    /\ email' = ProfileArgs(flows[i]).email
    /\ name' = IF sessionProfileExists THEN "" ELSE ProfileArgs(flows[i]).name
    /\ sessionProfileExists' = ~sessionProfileExists
    /\ sessionStatus' = "active"
    /\ isLoadingSession' = FALSE
    /\ flows' = [flows EXCEPT ![i] = Done]
    /\ last' = [op |-> "profileOk", sid |-> flows[i].sid, was |-> flows[i].was,
                kind |-> flows[i].kind, email |-> ProfileArgs(flows[i]).email,
                name |-> ProfileArgs(flows[i]).name,
                again |-> RepeatsLastProfile(flows[i])]
    /\ UNCHANGED <<store, sessionId, sessionError, messages, socks, socketRef,
                   effectDeps, props, nextSid, clock>>

\* set-profile answered with data.status
SetProfileOk(i) ==
    /\ flows[i].pc = "setprof"
    /\ email' = ProfileArgs(flows[i]).email
    /\ name' = ProfileArgs(flows[i]).name
    /\ sessionProfileExists' = TRUE
    /\ sessionStatus' = "active"
    /\ isLoadingSession' = FALSE
    /\ flows' = [flows EXCEPT ![i] = Done]
    /\ last' = [op |-> "profileOk", sid |-> flows[i].sid, was |-> flows[i].was,
                kind |-> flows[i].kind, email |-> ProfileArgs(flows[i]).email,
                name |-> ProfileArgs(flows[i]).name,
                again |-> RepeatsLastProfile(flows[i])]
    /\ UNCHANGED <<store, sessionId, sessionError, messages, socks, socketRef,
                   effectDeps, props, nextSid, clock>>

\* mutant: a failed set-profile leaves the loading state on display
SetProfileFailStaysLoading(i) ==
    /\ flows[i].pc = "setprof"
    /\ sessionError' = "err"
    /\ flows' = [flows EXCEPT ![i] = Done]
    /\ last' = [op |-> "profileFail"]
    /\ UNCHANGED <<store, sessionId, sessionStatus, isLoadingSession,
                   sessionProfileExists, messages, email, name,
                   socks, socketRef, effectDeps, props, nextSid, clock>>

\* mutant: a failed set-profile resets the profile of the controller
SetProfileFailClearsProfile(i) ==
    /\ flows[i].pc = "setprof"
    /\ sessionError' = "err"
    /\ sessionStatus' = "error"
    /\ isLoadingSession' = FALSE
    /\ sessionProfileExists' = FALSE
    /\ email' = ""
    /\ name' = ""
    /\ flows' = [flows EXCEPT ![i] = Done]
    /\ last' = [op |-> "profileFail"]
    /\ UNCHANGED <<store, sessionId, messages, socks, socketRef, effectDeps, props,
                   nextSid, clock>>

\* set-profile failed
SetProfileFail(i) ==
    /\ flows[i].pc = "setprof"
    /\ sessionError' = "err"
    /\ sessionStatus' = "error"
    /\ isLoadingSession' = FALSE
    /\ flows' = [flows EXCEPT ![i] = Done]
    /\ last' = [op |-> "profileFail"]
    /\ UNCHANGED <<store, sessionId, sessionProfileExists, messages, email, name,
                   socks, socketRef, effectDeps, props, nextSid, clock>>

\* initiateSession up to its fetch, as a new flow of the given caller
StartInitiate(kind) ==
    /\ Started(flows) < MaxFlows
    /\ flows' = [i \in 1..MaxFlows |->
                    IF i = NewFlow(flows)
                    THEN [NoFlow EXCEPT !.pc = "create", !.kind = kind,
                                        !.was = IF kind = "retry"
                                                THEN ControllerState(sessionStatus,
                                                         sessionProfileExists)
                                                ELSE "none"]
                    ELSE IF kind = "clear" /\ flows[i].pc = "fetch"
                    THEN [flows[i] EXCEPT !.switched = TRUE]
                    ELSE flows[i]]
    /\ isLoadingSession' = TRUE
    /\ sessionError' = NoError
    /\ sessionStatus' = "loading"
    /\ messages' = <<>>
    /\ sessionProfileExists' = FALSE

\* ChatScreen shows the closed view: not loading, no error, status closed
ClosedViewShown ==
    /\ Interactive
    /\ ~isLoadingSession
    /\ sessionError = NoError
    /\ sessionStatus = "closed"

\* handleStartNewConversation -> clearSessionAndInitiateNew
clearSessionAndInitiateNew ==
    /\ ClosedViewShown
    /\ IF socketRef # NoSocket /\ socks[socketRef].st = "connected"
       THEN /\ socks' = Disconnected(socks, socketRef)
            /\ socketRef' = NoSocket
       ELSE UNCHANGED <<socks, socketRef>>
    /\ store' = NoSession
    /\ sessionId' = NoSession
    /\ StartInitiate("clear")
    /\ last' = [op |-> "clear"]
    /\ UNCHANGED <<email, name, effectDeps, props, nextSid, clock>>

\* CuoralModal shows the error view with the Retry button
RetryShown ==
    /\ ~isLoadingSession
    /\ sessionError # NoError

\* mutant: Retry issues the request but leaves the error state on display
RetryKeepsError ==
    /\ Interactive
    /\ RetryShown
    /\ Started(flows) < MaxFlows
    /\ flows' = [flows EXCEPT ![NewFlow(flows)] =
                    [NoFlow EXCEPT !.pc = "create", !.kind = "retry",
                                   !.was = ControllerState(sessionStatus,
                                               sessionProfileExists)]]
    /\ last' = [op |-> "retry"]
    /\ UNCHANGED <<store, sessionId, sessionStatus, isLoadingSession, sessionError,
                   sessionProfileExists, messages, email, name, socks, socketRef,
                   effectDeps, props, nextSid, clock>>

\* the Retry button: initiateSession(email, firstName, lastName) up to its fetch
Retry ==
    /\ Interactive
    /\ RetryShown
    /\ StartInitiate("retry")
    /\ last' = [op |-> "retry"]
    /\ UNCHANGED <<store, sessionId, email, name, socks, socketRef, effectDeps,
                   props, nextSid, clock>>

\* ChatDetailsScreen.handleContinueToChat with a valid email and name
handleContinueToChat ==
    /\ Interactive
    /\ ~isLoadingSession
    /\ sessionError = NoError
    /\ IF sessionId # NoSession /\ ~sessionProfileExists
       THEN /\ Started(flows) < MaxFlows
            /\ flows' = [flows EXCEPT ![NewFlow(flows)] =
                            [NoFlow EXCEPT !.pc = "setprof", !.kind = "details",
                                           !.sid = sessionId,
                                           !.was = ControllerState(sessionStatus,
                                                       sessionProfileExists)]]
            /\ isLoadingSession' = TRUE
            /\ sessionError' = NoError
            /\ sessionStatus' = "loading"
            /\ UNCHANGED <<messages, sessionProfileExists>>
       ELSE IF sessionId = NoSession
       THEN StartInitiate("details")
       ELSE /\ Started(flows) < MaxFlows
            /\ flows' = [flows EXCEPT ![NewFlow(flows)] =
                            [NoFlow EXCEPT !.pc = "fetch", !.kind = "details",
                                           !.via = "direct", !.sid = sessionId]]
            /\ isLoadingSession' = TRUE
            /\ sessionError' = NoError
            /\ sessionStatus' = "loading"
            /\ UNCHANGED <<messages, sessionProfileExists>>
    /\ last' = [op |-> "continue"]
    /\ UNCHANGED <<store, sessionId, email, name, socks, socketRef, effectDeps,
                   props, nextSid, clock>>

\* sendMessageViaSocket refuses: no socket, socket not connected, or no sessionId
CannotSend ==
    \/ socketRef = NoSocket
    \/ socks[socketRef].st # "connected"
    \/ sessionId = NoSession

\* a random id that no entry of the log has
FreshId(log) ==
    TempIdBase + (CHOOSE k \in 1..(Len(log) + 1) :
                    /\ \A j \in 1..Len(log) : log[j].id # TempIdBase + k
                    /\ \A h \in 1..(k - 1) : \E j \in 1..Len(log) : log[j].id = TempIdBase + h)

\* ChatScreen.handleSendMessage with a non-empty input: the send button is
\* enabled only in the chat view with sessionStatus === 'active' and
\* escalatingMessageId === null
handleSendMessage(text, now) ==
    /\ Interactive
    /\ ~isLoadingSession
    /\ sessionError = NoError
    /\ sessionStatus = "active"
    /\ \A i \in 1..MaxFlows :
          ~(flows[i].kind = "escalate" /\ flows[i].pc \in {"stopbot", "timer", "stuck"})
    /\ Len(messages) < MaxLog
    /\ clock' = now
    /\ messages' = addMessageToState(messages,
                      [id |-> FreshId(messages), text |-> text, sender |-> "user",
                       timestamp |-> now, fileUrl |-> "undefined",
                       conversationId |-> NoSession])
    /\ sessionError' = IF CannotSend THEN "err" ELSE sessionError
    /\ last' = [op |-> "send", emits |-> ~CannotSend, room |-> sessionId,
                sockRoom |-> IF socketRef = NoSocket THEN NoSession ELSE socks[socketRef].room]
    /\ UNCHANGED <<store, sessionId, sessionStatus, isLoadingSession,
                   sessionProfileExists, email, name, socks, socketRef, flows,
                   effectDeps, props, nextSid>>

\* ChatScreen shows the chat view with the attach button: not loading, no
\* error, status not closed
ChatViewShown ==
    /\ Interactive
    /\ ~isLoadingSession
    /\ sessionError = NoError
    /\ sessionStatus # "closed"

\* ChatScreen.handleAttachButtonPress up to its awaits (permission, image
\* picker); cSid is the sessionId in the closure of the sendMessageViaSocket
\* it will call
handleAttachButtonPress ==
    /\ ChatViewShown
    /\ Started(flows) < MaxFlows
    /\ flows' = [flows EXCEPT ![NewFlow(flows)] =
                    [NoFlow EXCEPT !.pc = "pick", !.kind = "attach", !.cSid = sessionId]]
    /\ last' = [op |-> "attach"]
    /\ UNCHANGED <<store, sessionId, sessionStatus, isLoadingSession, sessionError,
                   sessionProfileExists, messages, email, name, socks, socketRef,
                   effectDeps, props, nextSid, clock>>

\* permission denied, picker cancelled or no base64 data: nothing is sent
PickCancelled(i) ==
    /\ flows[i].pc = "pick"
    /\ flows' = [flows EXCEPT ![i] = Done]
    /\ last' = [op |-> "pickCancel"]
    /\ UNCHANGED <<store, sessionId, sessionStatus, isLoadingSession, sessionError,
                   sessionProfileExists, messages, email, name, socks, socketRef,
                   effectDeps, props, nextSid, clock>>

\* sendMessageViaSocket of flow f refuses: no socket, socket not connected,
\* or no sessionId in its closure
CannotSendFile(f) ==
    \/ socketRef = NoSocket
    \/ socks[socketRef].st # "connected"
    \/ f.cSid = NoSession

\* mutant: a refused send puts the session in error and drops the log
FilePickedFailureResetsSession(i, now) ==
    /\ flows[i].pc = "pick"
    /\ Len(messages) < MaxLog
    /\ clock' = now
    /\ IF CannotSendFile(flows[i])
       THEN /\ sessionError' = "err"
            /\ sessionStatus' = "error"
            /\ messages' = <<>>
            /\ flows' = [flows EXCEPT ![i] = Done]
       ELSE /\ sessionError' = sessionError
            /\ sessionStatus' = sessionStatus
            /\ messages' = addMessageToState(messages,
                              [id |-> FreshId(messages), text |-> "hi", sender |-> "user",
                               timestamp |-> now, fileUrl |-> "data",
                               conversationId |-> NoSession])
            /\ flows' = [flows EXCEPT ![i].pc = "upload", ![i].sid = flows[i].cSid]
    /\ last' = [op |-> "picked", emits |-> "none", failed |-> CannotSendFile(flows[i])]
    /\ UNCHANGED <<store, sessionId, isLoadingSession,
                   sessionProfileExists, email, name, socks, socketRef,
                   effectDeps, props, nextSid>>

\* the picker returned an image: addMessage(messageWithFile), then
\* sendMessageViaSocket(text, fileData, fileName) up to its upload request
FilePicked(i, now) ==
    /\ flows[i].pc = "pick"
    /\ Len(messages) < MaxLog
    /\ clock' = now
    /\ messages' = addMessageToState(messages,
                      [id |-> FreshId(messages), text |-> "hi", sender |-> "user",
                       timestamp |-> now, fileUrl |-> "data",
                       conversationId |-> NoSession])
    /\ IF CannotSendFile(flows[i])
       THEN /\ sessionError' = "err"
            /\ flows' = [flows EXCEPT ![i] = Done]
       ELSE /\ sessionError' = sessionError
            /\ flows' = [flows EXCEPT ![i].pc = "upload", ![i].sid = flows[i].cSid]
    /\ last' = [op |-> "picked", emits |-> "none", failed |-> CannotSendFile(flows[i])]
    /\ UNCHANGED <<store, sessionId, sessionStatus, isLoadingSession,
                   sessionProfileExists, email, name, socks, socketRef,
                   effectDeps, props, nextSid>>

\* the upload answered ok: socketRef.current.emit("send_file", {room}); with
\* socketRef.current === null the call throws and the catch sets the error
UploadOk(i) ==
    /\ flows[i].pc = "upload"
    /\ flows' = [flows EXCEPT ![i] = Done]
    /\ sessionError' = IF socketRef = NoSocket THEN "err" ELSE sessionError
    /\ last' = [op |-> "uploadOk",
                emits |-> IF socketRef = NoSocket THEN "none" ELSE "send_file",
                failed |-> (socketRef = NoSocket), room |-> flows[i].sid]
    /\ UNCHANGED <<store, sessionId, sessionStatus, isLoadingSession,
                   sessionProfileExists, messages, email, name, socks, socketRef,
                   effectDeps, props, nextSid, clock>>

\* mutant: the file is announced although its upload failed
UploadFailStillAnnounces(i) ==
    /\ flows[i].pc = "upload"
    /\ flows' = [flows EXCEPT ![i] = Done]
    /\ sessionError' = "err"
    /\ last' = [op |-> "uploadFail", emits |-> "send_file", failed |-> TRUE]
    /\ UNCHANGED <<store, sessionId, sessionStatus, isLoadingSession,
                   sessionProfileExists, messages, email, name, socks, socketRef,
                   effectDeps, props, nextSid, clock>>

\* the upload answered not ok or the request threw
UploadFail(i) ==
    /\ flows[i].pc = "upload"
    /\ flows' = [flows EXCEPT ![i] = Done]
    /\ sessionError' = "err"
    /\ last' = [op |-> "uploadFail", emits |-> "none", failed |-> TRUE]
    /\ UNCHANGED <<store, sessionId, sessionStatus, isLoadingSession,
                   sessionProfileExists, messages, email, name, socks, socketRef,
                   effectDeps, props, nextSid, clock>>

\* mutant: the connect listener joins the room of the controller's sessionId
SocketConnectJoinsCurrentSession(i) ==
    /\ socks[i].st = "connecting"
    /\ socks' = [socks EXCEPT ![i].st = "connected", ![i].room = sessionId]
    /\ last' = [op |-> "connect", join |-> sessionId]
    /\ UNCHANGED <<store, sessionId, sessionStatus, isLoadingSession, sessionError,
                   sessionProfileExists, messages, email, name, socketRef, flows,
                   effectDeps, props, nextSid, clock>>

\* the transport connects (or reconnects) socket i: "connect" ->
\* emit("join", sId) with the sId of the connectSocket call that made it
SocketConnect(i) ==
    /\ socks[i].st = "connecting"
    /\ socks' = [socks EXCEPT ![i].st = "connected"]
    /\ last' = [op |-> "connect", join |-> socks[i].room]
    /\ UNCHANGED <<store, sessionId, sessionStatus, isLoadingSession, sessionError,
                   sessionProfileExists, messages, email, name, socketRef, flows,
                   effectDeps, props, nextSid, clock>>

\* the transport loses the connection of socket i and starts to reconnect
SocketDrop(i) ==
    /\ socks[i].st = "connected"
    /\ socks' = [socks EXCEPT ![i].st = "connecting"]
    /\ last' = [op |-> "drop"]
    /\ UNCHANGED <<store, sessionId, sessionStatus, isLoadingSession, sessionError,
                   sessionProfileExists, messages, email, name, socketRef, flows,
                   effectDeps, props, nextSid, clock>>

\* observation: how a message compares with the last entry of a log
MatchOfLast(log, m) ==
    IF log = <<>> THEN "none"
    ELSE IF log[Len(log)].id = m.id THEN "id"
    ELSE IF <<log[Len(log)].text, log[Len(log)].sender, log[Len(log)].fileUrl>>
             = <<m.text, m.sender, m.fileUrl>> THEN "content"
    ELSE "none"

\* observation: does an entry before the last one of a log have the id, or
\* the text, sender and fileUrl, of a message that the last one does not match
MatchesEarlier(log, m) ==
    /\ MatchOfLast(log, m) = "none"
    /\ \E j \in 1..(Len(log) - 1) :
          \/ log[j].id = m.id
          \/ <<log[j].text, log[j].sender, log[j].fileUrl>> = <<m.text, m.sender, m.fileUrl>>

\* observation: is ev a text of the user's own that comes back to the room
\* of the controller's session
IsEcho(ev, log) ==
    /\ ev \in Echoes
    /\ ev.room = sessionId
    /\ \E j \in 1..Len(log) : log[j].sender = "user" /\ log[j].text = ev.message

\* socket i receives a send_message or send_file event, and the side effects
\* of its updater end as fx
Receive(i, ev, now, fx) ==
    /\ socks[i].st = "connected"
    /\ LET accepted == Accepts(ev, socks[i].room)
           m == newMessageFromSocket(ev, now, FreshId(messages) - TempIdBase)
       IN  /\ clock' = IF accepted /\ ev.time_created = 0 THEN now ELSE clock
           /\ messages' = IF accepted THEN Updater(messages, m, fx) ELSE messages
           /\ last' = IF accepted \/ messages' # messages
                       THEN [op |-> "deliver", room |-> ev.room,
                             reply |-> (ev.hasData /\ ev.message_type = "REPLY"),
                             external |-> (ev.hasData /\ ev.channel = "external"),
                             sender |-> m.sender,
                             author |-> ev.author_type,
                             at |-> m.timestamp,
                             match |-> MatchOfLast(messages, m),
                             sound |-> IF accepted /\ Notifies(messages, m) THEN 1 ELSE 0,
                             notif |-> IF accepted /\ Notifies(messages, m) THEN 1 ELSE 0,
                             fx |-> IF accepted /\ Notifies(messages, m) THEN fx ELSE AllOk,
                             echo |-> IsEcho(ev, messages),
                             back |-> MatchesEarlier(messages, m)]
                       ELSE [op |-> "dropped", echo |-> IsEcho(ev, messages)]
    /\ UNCHANGED <<store, sessionId, sessionStatus, isLoadingSession, sessionError,
                   sessionProfileExists, email, name, socks, socketRef, flows,
                   effectDeps, props, nextSid>>

\* a delivery whose side effects succeed, while the log has room
Deliver(i, ev, now) ==
    /\ Receive(i, ev, now, AllOk)
    /\ Len(messages') <= MaxLog

\* a delivery to an established chat, with any outcome of the side effects
DeliverChat(i, ev, now, fx) ==
    /\ Receive(i, ev, now, fx)
    /\ Len(messages') <= MaxChatLog

\* ChatScreen's escalatingMessageId is set: an escalation waits for its
\* stop-bot answer or its timer, or its timer callback threw before
\* setEscalatingMessageId(null)
Escalating ==
    \E i \in 1..MaxFlows :
        flows[i].kind = "escalate" /\ flows[i].pc \in {"stopbot", "timer", "stuck"}

\* ChatScreen.handleEscalateToAgent up to its fetch; the button is rendered
\* under the last bot message of the chat view
handleEscalateToAgent ==
    /\ ChatViewShown
    /\ \E j \in 1..Len(messages) : messages[j].sender = "bot"
    /\ sessionId # NoSession
    /\ ~Escalating
    /\ Started(flows) < MaxFlows
    /\ flows' = [flows EXCEPT ![NewFlow(flows)] =
                    [NoFlow EXCEPT !.pc = "stopbot", !.kind = "escalate",
                                   !.cSid = sessionId]]
    /\ last' = [op |-> "escalate"]
    /\ UNCHANGED <<store, sessionId, sessionStatus, isLoadingSession, sessionError,
                   sessionProfileExists, messages, email, name, socks, socketRef,
                   effectDeps, props, nextSid, clock>>

\* mutant: the user's synthetic entry is posted although stop-bot failed
StopBotFailStillPosts(i) ==
    /\ flows[i].pc = "stopbot"
    /\ Len(messages) < MaxChatLog
    /\ messages' = addMessageToState(messages,
                      [id |-> FreshId(messages), text |-> "agent?", sender |-> "user",
                       timestamp |-> clock, fileUrl |-> "undefined",
                       conversationId |-> NoSession])
    /\ flows' = [flows EXCEPT ![i] = Done]
    /\ last' = [op |-> "stopBotFail"]
    /\ UNCHANGED <<store, sessionId, sessionStatus, isLoadingSession, sessionError,
                   sessionProfileExists, email, name, socks, socketRef,
                   effectDeps, props, nextSid, clock>>

\* the stop-bot request failed: Alert.alert, setEscalatingMessageId(null)
StopBotFail(i) ==
    /\ flows[i].pc = "stopbot"
    /\ flows' = [flows EXCEPT ![i] = Done]
    /\ last' = [op |-> "stopBotFail"]
    /\ UNCHANGED <<store, sessionId, sessionStatus, isLoadingSession, sessionError,
                   sessionProfileExists, messages, email, name, socks, socketRef,
                   effectDeps, props, nextSid, clock>>

\* the stop-bot request answered ok: addMessage of the user's synthetic
\* entry, sendMessageViaSocket(text) and setTimeout(..., 3000)
StopBotOk(i, now) ==
    /\ flows[i].pc = "stopbot"
    /\ Len(messages) < MaxChatLog
    /\ clock' = now
    /\ messages' = addMessageToState(messages,
                      [id |-> FreshId(messages), text |-> "agent?", sender |-> "user",
                       timestamp |-> now, fileUrl |-> "undefined",
                       conversationId |-> NoSession])
    /\ sessionError' = IF CannotSendFile(flows[i]) THEN "err" ELSE sessionError
    /\ flows' = [flows EXCEPT ![i].pc = "timer"]
    /\ last' = [op |-> "stopBotOk", emits |-> ~CannotSendFile(flows[i])]
    /\ UNCHANGED <<store, sessionId, sessionStatus, isLoadingSession,
                   sessionProfileExists, email, name, socks, socketRef,
                   effectDeps, props, nextSid>>

\* how the build treats the assignment to the undeclared message_type in the
\* argument list of the timer's sendMessageViaSocket call: a module in strict
\* mode throws a ReferenceError, sloppy code passes "REPLY" as fileData
ScriptModes == {"strict", "sloppy"}

\* the timer of the escalation fires: addMessage of the agent's synthetic
\* entry, then sendMessageViaSocket(text, message_type = "REPLY") and
\* setEscalatingMessageId(null)
EscalationTimer(i, now, mode) ==
    /\ flows[i].pc = "timer"
    /\ Len(messages) < MaxChatLog
    /\ clock' = now
    /\ messages' = addMessageToState(messages,
                      [id |-> FreshId(messages), text |-> "alert", sender |-> "admin",
                       timestamp |-> now, fileUrl |-> "undefined",
                       conversationId |-> NoSession])
    /\ IF mode = "strict"
       THEN /\ flows' = [flows EXCEPT ![i].pc = "stuck"]
            /\ sessionError' = sessionError
       ELSE IF CannotSendFile(flows[i])
       THEN /\ flows' = [flows EXCEPT ![i] = Done]
            /\ sessionError' = "err"
       ELSE /\ flows' = [flows EXCEPT ![i].pc = "upload", ![i].sid = flows[i].cSid]
            /\ sessionError' = sessionError
    /\ last' = [op |-> "escalationTimer", mode |-> mode]
    /\ UNCHANGED <<store, sessionId, sessionStatus, isLoadingSession,
                   sessionProfileExists, email, name, socks, socketRef,
                   effectDeps, props, nextSid>>

Next ==
    \/ EffectRun
    \/ \E i \in 1..MaxFlows : SetupRead(i)
    \/ \E i \in 1..MaxFlows : CreateOk(i)
    \/ \E i \in 1..MaxFlows : CreateFail(i)
    \/ \E i \in 1..MaxFlows : \E data \in FetchData : FetchOk(i, data)
    \/ \E i \in 1..MaxFlows : \E err \in FetchErrors : FetchFail(i, err)
    \/ \E i \in 1..MaxFlows : SetProfileOk(i)
    \/ \E i \in 1..MaxFlows : SetProfileFail(i)
    \/ clearSessionAndInitiateNew
    \/ Retry
    \/ handleContinueToChat
    \/ \E now \in clock..MaxTime : handleSendMessage("hi", now)
    \/ handleAttachButtonPress
    \/ \E i \in 1..MaxFlows : PickCancelled(i)
    \/ \E i \in 1..MaxFlows : \E now \in clock..MaxTime : FilePicked(i, now)
    \/ \E i \in 1..MaxFlows : UploadOk(i)
    \/ \E i \in 1..MaxFlows : UploadFail(i)
    \/ \E i \in 1..MaxSockets : SocketConnect(i)
    \/ \E i \in 1..MaxSockets : SocketDrop(i)
    \/ \E i \in 1..MaxSockets : \E ev \in CoreEvents : \E now \in Nows(ev) :
            Deliver(i, ev, now)

Spec == Init /\ [][Next]_vars

\* answers for an active session with a complete profile
ActiveData == {d \in FetchData : d.status = "active" /\ d.name = "n"}

\* The message traffic in full: every event of Events and every text, on
\* sessions whose requests all succeed
NextLog ==
    \/ EffectRun
    \/ \E i \in 1..MaxFlows : SetupRead(i)
    \/ \E i \in 1..MaxFlows : CreateOk(i)
    \/ \E i \in 1..MaxFlows : \E data \in ActiveData : FetchOk(i, data)
    \/ \E text \in Texts : \E now \in clock..MaxTime : handleSendMessage(text, now)
    \/ \E i \in 1..MaxSockets : SocketConnect(i)
    \/ \E i \in 1..MaxSockets : \E ev \in LogEvents : \E now \in Nows(ev) :
            Deliver(i, ev, now)

\* a fresh install without initial email and name
InitLog ==
    /\ Init
    /\ store = NoSession
    /\ props.email = ""

SpecLog == InitLog /\ [][NextLog]_vars

\* the id found in AsyncStorage at startup (Init), which the backend may no
\* longer know
StaleId == 1

\* answers for a session that was just created
NewSessionData == {d \in FetchData : d.status = "active"}

\* Startup on a stale stored id: get-single-session answers not found for
\* it, and every request for a newly created session succeeds
NextStale ==
    \/ EffectRun
    \/ \E i \in 1..MaxFlows : SetupRead(i)
    \/ \E i \in 1..MaxFlows : flows[i].sid = StaleId /\ FetchFail(i, "notfound")
    \/ \E i \in 1..MaxFlows : CreateOk(i)
    \/ \E i \in 1..MaxFlows : \E data \in NewSessionData :
            flows[i].sid # StaleId /\ FetchOk(i, data)
    \/ \E i \in 1..MaxFlows : SetProfileOk(i)
    \/ \E i \in 1..MaxSockets : SocketConnect(i)
    \/ \E i \in 1..MaxSockets : SocketDrop(i)
    \/ \E i \in 1..MaxSockets : \E ev \in CoreEvents : \E now \in Nows(ev) :
            Deliver(i, ev, now)

InitStale ==
    /\ Init
    /\ store = StaleId

SpecStale == InitStale /\ [][NextStale]_vars

\* Startup on a stored id that the backend knows: every get-single-session
\* request succeeds, with any status, profile and history
NextResume ==
    \/ EffectRun
    \/ \E i \in 1..MaxFlows : SetupRead(i)
    \/ \E i \in 1..MaxFlows : \E data \in FetchData : FetchOk(i, data)
    \/ \E i \in 1..MaxFlows : SetProfileOk(i)
    \/ \E i \in 1..MaxFlows : SetProfileFail(i)
    \/ \E i \in 1..MaxSockets : SocketConnect(i)
    \/ \E i \in 1..MaxSockets : SocketDrop(i)
    \/ \E i \in 1..MaxSockets : \E ev \in CoreEvents : \E now \in Nows(ev) :
            Deliver(i, ev, now)

InitResume ==
    /\ Init
    /\ store # NoSession

SpecResume == InitResume /\ [][NextResume]_vars

\* the session a startup has resumed: stored id 1 was hydrated as active with
\* a complete profile and the history h, first by the mount effect and again
\* by the effect that re-ran when sessionId and the profile flag were set
ResumedSession(h) ==
    /\ store = 1
    /\ sessionId = 1
    /\ sessionStatus = "active"
    /\ isLoadingSession = FALSE
    /\ sessionError = NoError
    /\ sessionProfileExists = TRUE
    /\ messages = loadedMessages(h)
    /\ props = [email |-> "", name |-> ""]
    /\ email = "e"
    /\ name = "n"
    /\ socks = [i \in 1..MaxSockets |->
                  IF i = 1 THEN [room |-> 1, st |-> "closed"]
                  ELSE IF i = 2 THEN [room |-> 1, st |-> "connecting"]
                  ELSE NoSock]
    /\ socketRef = 2
    /\ flows = [i \in 1..MaxFlows |-> IF i <= 2 THEN Done ELSE NoFlow]
    /\ effectDeps = [mounted |-> TRUE, sessionId |-> 1, sessionProfileExists |-> TRUE]
    /\ nextSid = 2
    /\ clock = 1
    /\ last = [op |-> "fetchOk", closed |-> FALSE, switched |-> FALSE,
               via |-> "direct", kind |-> "setup", was |-> "none", hist |-> h,
               sound |-> 0, notif |-> 0]

\* The traffic of an established chat: sends, deliveries with every outcome
\* of the side effects, echoes, reconnects and the escalation to an agent
NextChat ==
    \/ \E now \in clock..MaxTime : handleSendMessage("hi", now)
    \/ \E i \in 1..MaxSockets : SocketConnect(i)
    \/ \E i \in 1..MaxSockets : SocketDrop(i)
    \/ \E i \in 1..MaxSockets : \E ev \in ChatEvents : \E now \in Nows(ev) :
            \E fx \in SideEffectOutcomes : DeliverChat(i, ev, now, fx)
    \/ handleEscalateToAgent
    \/ \E i \in 1..MaxFlows : StopBotFail(i)
    \/ \E i \in 1..MaxFlows : \E now \in clock..MaxTime : StopBotOk(i, now)
    \/ \E i \in 1..MaxFlows : \E now \in clock..MaxTime : \E mode \in ScriptModes :
            EscalationTimer(i, now, mode)
    \/ \E i \in 1..MaxFlows : UploadOk(i)
    \/ \E i \in 1..MaxFlows : UploadFail(i)

InitChat == \E h \in Histories : ResumedSession(h)

SpecChat == InitChat /\ [][NextChat]_vars

\* the stop-bot request of escalation i is answered, or its timer fires
EscalationStep(i) ==
    \/ StopBotFail(i)
    \/ \E now \in clock..MaxTime : StopBotOk(i, now)
    \/ \E now \in clock..MaxTime : \E mode \in ScriptModes : EscalationTimer(i, now, mode)

\* An established chat in which the user sends texts and escalates to an
\* agent, and the transport drops and reconnects
NextEscalation ==
    \/ \E now \in clock..MaxTime : handleSendMessage("hi", now)
    \/ \E i \in 1..MaxSockets : SocketConnect(i)
    \/ \E i \in 1..MaxSockets : SocketDrop(i)
    \/ handleEscalateToAgent
    \/ \E i \in 1..MaxFlows : EscalationStep(i)
    \/ \E i \in 1..MaxFlows : UploadOk(i)
    \/ \E i \in 1..MaxFlows : UploadFail(i)

\* the stop-bot fetch settles and the 3000 ms timer fires
SpecEscalation ==
    /\ InitChat
    /\ [][NextEscalation]_vars
    /\ \A i \in 1..MaxFlows : WF_vars(EscalationStep(i))

\* the startup has finished: the effect has run for the current sessionId and
\* sessionProfileExists and no flow is waiting for a response
Quiescent ==
    /\ ~EffectPending
    /\ \A i \in 1..MaxFlows : ~InFlight(flows[i])

\* answers of get-single-session for a session without history
FlowData == {d \in FetchData : d.messages = <<>>}

\* the request or device call that flow i waits for returns, with any result
Response(i) ==
    \/ SetupRead(i)
    \/ CreateOk(i)
    \/ CreateFail(i)
    \/ \E data \in FlowData : FetchOk(i, data)
    \/ \E err \in FetchErrors : FetchFail(i, err)
    \/ SetProfileOk(i)
    \/ SetProfileFail(i)

\* The session flows alone (startup, new conversation, retry, details form)
\* with the transport connecting
NextFlows ==
    \/ EffectRun
    \/ \E i \in 1..MaxFlows : Response(i)
    \/ clearSessionAndInitiateNew
    \/ Retry
    \/ handleContinueToChat
    \/ \E i \in 1..MaxSockets : SocketConnect(i)

\* every call a flow waits for returns at last: fetch settles with a
\* response or an error, registerForPushNotificationsAsync catches its errors
SpecFlows ==
    /\ Init
    /\ [][NextFlows]_vars
    /\ \A i \in 1..MaxFlows : WF_vars(Response(i))

\* The startup of a fresh install alone: the mount effect, its re-runs and
\* the responses to their requests; the user does nothing
NextStartup ==
    \/ EffectRun
    \/ \E i \in 1..MaxFlows : Response(i)
    \/ \E i \in 1..MaxSockets : SocketConnect(i)

\* AsyncStorage holds no session id
InitFresh ==
    /\ Init
    /\ store = NoSession

SpecStartup == InitFresh /\ [][NextStartup]_vars

\* ----------------------------------------------------------------- claims

LiveSockets == {i \in 1..MaxSockets : Live(socks, i)}

Requests == {i \in 1..MaxFlows : flows[i].pc \in {"create", "fetch"}}

\* C1: in every reachable state the messages log is sorted ascending by timestamp
C1_LogSorted == IsSorted(messages)

\* C2: at any instant at most one createSession / fetchSession request of a
\* session flow is in flight
C2_OneFlowInFlight == Cardinality(Requests) <= 1

\* C3: the response of a hydrate that was in flight when
\* clearSessionAndInitiateNew ran is discarded: it changes neither sessionId,
\* the log, the status, the profile flag nor the sockets
C3_SwitchDiscardsHydrate ==
    [][(last'.op = "fetchOk" /\ last'.switched) =>
          /\ sessionId' = sessionId
          /\ messages' = messages
          /\ sessionStatus' = sessionStatus
          /\ sessionProfileExists' = sessionProfileExists
          /\ socks' = socks
          /\ socketRef' = socketRef]_vars

\* C6: an inbound event changes the log only if it is a reply on the external
\* channel whose room is the current sessionId
C6_FilterByCurrentSession ==
    [][(last'.op = "deliver" /\ messages' # messages) =>
          /\ last'.reply
          /\ last'.external
          /\ last'.room = sessionId]_vars

\* C7: every log entry that came from the realtime channel carries the
\* current sessionId as its conversationId
C7_NoCrossSessionLeak ==
    \A j \in 1..Len(messages) :
        messages[j].conversationId # NoSession => messages[j].conversationId = sessionId

\* C8: every socket that can still deliver events is socketRef.current, so at
\* most one connection is live
C8_OneLiveSocket ==
    /\ \A i \in LiveSockets : i = socketRef
    /\ Cardinality(LiveSockets) <= 1

\* C8 witness: connectSocket replaced an earlier socket
C8_Witness ==
    /\ \E i \in 1..MaxSockets : socks[i].st = "closed"
    /\ socketRef # NoSocket
    /\ Live(socks, socketRef)
    /\ last.op = "fetchOk"

C10_ClosedNoSocket == sessionStatus = "closed" => LiveSockets = {}

\* C4: a delivered realtime message whose id, or whose text, sender and
\* fileUrl, equal those of the last log entry leaves the log unchanged and
\* invokes neither playNotificationSound nor sendLocalNotification
C4_DuplicateIsNoOp ==
    [][(last'.op = "deliver" /\ last'.match # "none")
       => /\ messages' = messages
          /\ last'.sound = 0
          /\ last'.notif = 0]_vars

\* C4 witness: a delivery matched the last entry in text, sender and fileUrl
\* under another id
C4_Witness ==
    /\ last.op = "deliver"
    /\ last.match = "content"
    /\ messages # <<>>

\* invocations of playNotificationSound / sendLocalNotification by a step
SoundCalls(l) == IF l.op \in {"deliver", "fetchOk"} THEN l.sound ELSE 0
NotificationCalls(l) == IF l.op \in {"deliver", "fetchOk"} THEN l.notif ELSE 0

\* C5: a step invokes playNotificationSound once and sendLocalNotification
\* once if it inserts a realtime message with sender bot or admin, and
\* neither of them otherwise
C5_SideEffectsOncePerInsert ==
    [][LET inserted == /\ last'.op = "deliver"
                       /\ Len(messages') = Len(messages) + 1
                       /\ last'.sender \in {"bot", "admin"}
       IN  /\ SoundCalls(last') = (IF inserted THEN 1 ELSE 0)
           /\ NotificationCalls(last') = (IF inserted THEN 1 ELSE 0)]_vars

\* C5 witness: a realtime message was inserted behind a user's own entry
C5_Witness ==
    /\ last.op = "deliver"
    /\ last.sound = 1
    /\ last.notif = 1
    /\ Len(messages) = 2
    /\ \E j \in 1..Len(messages) : messages[j].sender = "user"
    /\ \E j \in 1..Len(messages) : messages[j].conversationId = sessionId

\* C11: a startup hydrate of the stored id that finds the session closed
\* leaves the log equal to the sorted history and calls no connectSocket, and
\* neither it nor the automatic setProfile that follows it replaces closed by
\* active
C11_ClosedResumeStaysClosed ==
    [][/\ (last'.op = "fetchOk" /\ last'.kind = "setup" /\ last'.via = "direct"
            /\ last'.closed)
          => /\ messages' = loadedMessages(last'.hist)
             /\ socks' = socks
             /\ socketRef' = socketRef
             /\ sessionStatus' # "active"
       /\ (last'.op = "profileOk" /\ last'.kind = "setup" /\ last'.was = "closed")
          => sessionStatus' # "active"]_vars

\* C12: on a stale stored id whose replacement is created and hydrated
\* successfully the controller never shows error, and when the startup has
\* finished sessionStatus is active, sessionError is null and the store
\* holds the newly created id, which is the controller's sessionId
C12_StaleIdFallsBackToNewSession ==
    /\ sessionStatus # "error"
    /\ sessionError = NoError
    /\ store # NoSession
    /\ Quiescent =>
          /\ sessionStatus = "active"
          /\ store # StaleId
          /\ sessionId = store

\* C12 witness: the startup has finished on the session created by the
\* fallback
C12_Witness ==
    /\ Quiescent
    /\ last.op = "fetchOk"
    /\ nextSid = StaleId + 2
    /\ store = StaleId + 1
    /\ sessionId = store
    /\ sessionStatus = "active"

\* C13: when the startup hydrate of the stored id fails with an error other
\* than not-found, the controller ends in error with an error message, no
\* initiate-session request is issued and the stored id is left as it is
C13_OtherErrorsEndInError ==
    [][(last'.op = "fetchFail" /\ last'.startup /\ last'.err = "network")
       => /\ sessionStatus' = "error"
          /\ sessionError' # NoError
          /\ store' = store
          /\ \A i \in 1..MaxFlows : flows'[i].pc = "create" => flows[i].pc = "create"]_vars

\* C14: while every hydrate of the stored id S succeeds, the startup issues
\* no initiate-session request and creates no session, the store keeps S,
\* every hydrate leaves sessionId = S and the log equal to the sorted history
\* of its response, and the finished startup has sessionId = S
C14_StoredSessionIsResumed ==
    /\ store \in SessionIds
    /\ sessionId \in {NoSession, store}
    /\ nextSid = store + 1
    /\ \A i \in 1..MaxFlows : flows[i].pc # "create"
    /\ last.op = "fetchOk" => sessionId = store /\ messages = loadedMessages(last.hist)
    /\ Quiescent => sessionId = store

\* C14 witness: the startup has finished on the stored session with its
\* history of two entries loaded
C14_Witness ==
    /\ Quiescent
    /\ last.op = "fetchOk"
    /\ sessionId = store
    /\ Len(last.hist) = 2
    /\ Len(messages) = 2
    /\ messages[1].timestamp < messages[2].timestamp

\* C15: the id that initiate-session returns to the startup is in the store
\* before its hydrate completes, and when the startup flow that created it
\* has finished, the store and sessionId both hold it
C15_FreshStartPersistsId ==
    [][/\ (last'.op = "createOk" /\ last'.kind = "setup")
          => /\ store' = sessionId'
             /\ \E i \in 1..MaxFlows :
                    /\ flows'[i].pc = "fetch"
                    /\ flows[i].pc = "create"
                    /\ flows'[i].sid = store'
       /\ (last'.op \in {"fetchOk", "fetchFail"} /\ last'.kind = "setup"
            /\ last'.via = "init")
          => \E i \in 1..MaxFlows :
                /\ flows[i].pc = "fetch"
                /\ flows'[i].pc # "fetch"
                /\ store' = flows[i].sid
                /\ sessionId' = flows[i].sid]_vars

\* C16: when clearSessionAndInitiateNew has issued its initiate-session
\* request, no socket of the previous session can still deliver events, the
\* stored id is removed, the log is empty, the profile flag is false,
\* sessionStatus is loading and the controller holds no session id
C16_StartNewResetsEverything ==
    [][last'.op = "clear"
       => /\ \A i \in 1..MaxSockets : ~Live(socks', i)
          /\ store' = NoSession
          /\ sessionId' = NoSession
          /\ messages' = <<>>
          /\ ~sessionProfileExists'
          /\ sessionStatus' = "loading"
          /\ \E i \in 1..MaxFlows :
                flows'[i].pc = "create" /\ flows'[i].kind = "clear"]_vars

\* the steps of an attachment send
AttachOps == {"attach", "pickCancel", "picked", "uploadOk", "uploadFail"}

\* C17: a step of an attachment send emits send_file only if it is the step
\* that handles the successful answer of the upload; the steps that issue
\* the upload and the step of a failed upload emit nothing
C17_UploadBeforeAnnounce ==
    [][/\ (last'.op \in {"picked", "uploadOk", "uploadFail"} /\ last'.emits = "send_file")
          => /\ last'.op = "uploadOk"
             /\ \E i \in 1..MaxFlows : flows[i].pc = "upload" /\ flows'[i].pc = "done"
       /\ last'.op \in {"picked", "uploadFail"} => last'.emits = "none"
       /\ last'.op \notin AttachOps => \A i \in 1..MaxFlows :
             flows[i].pc = "upload" => flows'[i] = flows[i]]_vars

\* C17 witness: an upload failed and nothing was announced
C17_Witness ==
    /\ last.op = "uploadFail"
    /\ last.emits = "none"
    /\ \E j \in 1..Len(messages) : messages[j].fileUrl = "data"

\* did the step refuse or fail to send
IsFailedSend(l) ==
    \/ l.op = "send" /\ ~l.emits
    \/ l.op \in {"picked", "uploadOk", "uploadFail"} /\ l.failed

\* C18: a failed send leaves sessionStatus, sessionId and the profile flag
\* unchanged and removes no entry of the log
C18_FailedSendKeepsSession ==
    [][IsFailedSend(last')
       => /\ sessionStatus' = sessionStatus
          /\ sessionId' = sessionId
          /\ sessionProfileExists' = sessionProfileExists
          /\ Len(messages') >= Len(messages)
          /\ \A j \in 1..Len(messages) : messages'[j] = messages[j]]_vars

\* C18 witness: a send was refused because the socket was not connected,
\* with an earlier entry in the log
C18_Witness ==
    /\ last.op \in {"send", "picked"}
    /\ IsFailedSend(last)
    /\ sessionError # NoError
    /\ sessionStatus = "active"
    /\ Len(messages) = 2

\* C19: the second of two successive successful setProfile calls with the
\* same session id, email and name leaves email, name, the profile flag and
\* sessionStatus as the first call left them, and leaves the log unchanged
C19_SetProfileIdempotent ==
    [][(last'.op = "profileOk" /\ last'.again)
       => /\ email' = email
          /\ name' = name
          /\ sessionProfileExists' = sessionProfileExists
          /\ sessionStatus' = sessionStatus
          /\ messages' = messages]_vars

\* C19 witness: a setProfile call succeeded right after another one with
\* the same arguments
C19_Witness ==
    /\ last.op = "profileOk"
    /\ last.again
    /\ sessionProfileExists
    /\ email = last.email
    /\ name = last.name

\* C20: when setProfile succeeds for a session that was active with an
\* incomplete profile, the controller has sessionStatus active and the
\* profile flag true, and a connection bound to that session id is open
C20_ProfileSetThenConnected ==
    [][(last'.op = "profileOk" /\ last'.was = "profilePending")
       => /\ sessionStatus' = "active"
          /\ sessionProfileExists'
          /\ socketRef' # NoSocket
          /\ Live(socks', socketRef')
          /\ socks'[socketRef'].room = last'.sid]_vars

\* C21: a Retry pressed in sessionStatus error sets sessionStatus to loading,
\* clears sessionError and issues initiate-session; when the create and the
\* hydrate of that retry succeed the hydrate's step leaves sessionStatus
\* active; and whenever sessionStatus is error the error view with the Retry
\* button is on display, so that no error state is absorbing
C21_ErrorIsNotTerminal ==
    [][/\ (last'.op = "retry" /\ sessionStatus = "error")
          => /\ sessionStatus' = "loading"
             /\ sessionError' = NoError
             /\ \E i \in 1..MaxFlows :
                    /\ flows[i].pc = "idle"
                    /\ flows'[i].pc = "create"
                    /\ flows'[i].kind = "retry"
       /\ (last'.op = "fetchOk" /\ last'.kind = "retry" /\ last'.was = "error")
          => sessionStatus' = "active"
       /\ sessionStatus' = "error" => RetryShown']_vars

\* C21 witness: the session that a Retry from error created has been
\* hydrated and the controller is active
C21_Witness ==
    /\ last.op = "fetchOk"
    /\ last.kind = "retry"
    /\ last.was = "error"
    /\ sessionStatus = "active"
    /\ sessionError = NoError
    /\ ~isLoadingSession
    /\ sessionId = store

\* C22: whenever sessionStatus is error an error message is stored, and every
\* failed initiate-session request and every failed get-single-session
\* request other than the startup hydrate that falls back to a new session
\* leaves sessionStatus error with an error message
C22_FailureLeavesErrorAndMessage ==
    [][/\ sessionStatus' = "error" => sessionError' # NoError
       /\ (\/ last'.op = "createFail"
           \/ last'.op = "fetchFail" /\ ~last'.startup)
          => /\ sessionStatus' = "error"
             /\ sessionError' # NoError]_vars

\* C23: a step that starts no initiateSession and is no hydrate removes no
\* entry from the log, and a hydrate of the session the controller already
\* holds keeps every entry that was delivered by the realtime channel or
\* inserted locally and is not part of the fetched history
C23_NothingRemovedWithoutReset ==
    [][LET kept(j) == \E k \in 1..Len(messages') : messages'[k] = messages[j]
           inHistory(j) == \/ \E k \in 1..Len(last'.hist) :
                                  last'.hist[k].time_created = messages[j].id
                           \/ /\ messages[j].conversationId = NoSession
                              /\ messages[j].id < TempIdBase
           resets == \E i \in 1..MaxFlows :
                         flows'[i].pc = "create" /\ flows[i].pc # "create"
       IN  /\ (last'.op = "fetchOk" /\ sessionId' = sessionId)
              => \A j \in 1..Len(messages) : ~inHistory(j) => kept(j)
           /\ (last'.op # "fetchOk" /\ ~resets)
              => \A j \in 1..Len(messages) : kept(j)]_vars

\* C24 as stated: no two entries of the log have the same id
C24_LogDuplicateFree ==
    \A i \in 1..Len(messages) : \A j \in 1..Len(messages) :
        i < j => messages[i].id # messages[j].id

\* C24 amended: a realtime delivery that changes the log inserts exactly one
\* entry, and that entry differs from the entry that was last before it in
\* id and in (text, sender, fileUrl); a message that is in the log further
\* back is inserted again
C24_DuplicateFreeAgainstLastOnly ==
    [][(last'.op = "deliver" /\ messages' # messages)
       => /\ last'.match = "none"
          /\ Len(messages') = Len(messages) + 1
          /\ \A j \in 1..Len(messages) :
                \E k \in 1..Len(messages') : messages'[k] = messages[j]]_vars

\* C24 witness: a redelivered message was inserted a second time because
\* another entry was last
C24_Witness ==
    /\ last.op = "deliver"
    /\ last.match = "none"
    /\ \E i \in 1..Len(messages) : \E j \in 1..Len(messages) :
          i < j /\ messages[i] = messages[j]

\* the messages the socket opened for session sId makes of the replies that
\* carry a time_created
TimedReplies(sId) ==
    { newMessageFromSocket(ev, 0, 0) : ev \in {e \in ChatEvents : Accepts(e, sId)} }

\* the log after the updater has run for a and then for b
MergeBoth(log, a, b) == MergeFromSocket(MergeFromSocket(log, a), b)

\* C25 as stated: for the log of any reachable state and any two accepted
\* realtime messages with distinct timestamps, both delivery orders give the
\* same log
C25_DeliveryOrderIndependent ==
    \A a \in TimedReplies(sessionId) : \A b \in TimedReplies(sessionId) :
        a.timestamp # b.timestamp => MergeBoth(messages, a, b) = MergeBoth(messages, b, a)

\* C25 amended: both delivery orders give the same log whenever neither
\* message is discarded by the duplicate test in either order
C25_OrderIndependentWithoutDiscard ==
    \A a \in TimedReplies(sessionId) : \A b \in TimedReplies(sessionId) :
        (/\ a.timestamp # b.timestamp
         /\ ~IsDuplicate(messages, a)
         /\ ~IsDuplicate(messages, b)
         /\ ~IsDuplicate(MergeFromSocket(messages, a), b)
         /\ ~IsDuplicate(MergeFromSocket(messages, b), a))
        => MergeBoth(messages, a, b) = MergeBoth(messages, b, a)

\* C25 witness: of two realtime messages the one with the earlier timestamp
\* was delivered last and stands first
C25_Witness ==
    /\ last.op = "deliver"
    /\ last.match = "none"
    /\ last.at = 1
    /\ Len(messages) = 2
    /\ messages[1].conversationId = sessionId
    /\ messages[2].conversationId = sessionId
    /\ messages[1].timestamp = 1
    /\ messages[2].timestamp = MaxTime

\* C26: the delivery of the echo of a text that the user sent leaves the
\* log, with its one optimistic entry, unchanged and invokes neither
\* playNotificationSound nor sendLocalNotification
C26_EchoOfOwnMessageIsDropped ==
    [][(last'.op \in {"deliver", "dropped"} /\ last'.echo)
       => /\ messages' = messages
          /\ SoundCalls(last') = 0
          /\ NotificationCalls(last') = 0]_vars

\* C26 witness: the echo of the user's text arrived and the log holds the
\* optimistic entry once
C26_Witness ==
    /\ last.op = "dropped"
    /\ last.echo
    /\ Cardinality({j \in 1..Len(messages) :
                        messages[j].sender = "user" /\ messages[j].text = "hi"}) = 1
    /\ \A j \in 1..Len(messages) : messages[j].sender # "user" => messages[j].text # "hi"

\* the steps of an escalation to an agent
EscalationOps == {"escalate", "stopBotOk", "stopBotFail", "escalationTimer"}

\* C27: no step of an escalation changes sessionStatus, sessionId or the
\* profile flag; the step of the ok answer of stop-bot appends one entry of
\* sender user, the timer step after it appends one entry of sender admin
\* behind it, and the press of the button and a failed stop-bot add nothing
C27_EscalationKeepsStatus ==
    [][LET appended(sender, text) ==
               /\ Len(messages') = Len(messages) + 1
               /\ \A j \in 1..Len(messages) : messages'[j] = messages[j]
               /\ messages'[Len(messages')].sender = sender
               /\ messages'[Len(messages')].text = text
       IN  /\ last'.op \in EscalationOps
              => /\ sessionStatus' = sessionStatus
                 /\ sessionId' = sessionId
                 /\ sessionProfileExists' = sessionProfileExists
           /\ last'.op = "stopBotOk" => appended("user", "agent?")
           /\ last'.op = "escalationTimer"
              => /\ appended("admin", "alert")
                 /\ \E j \in 1..Len(messages) :
                        messages[j].sender = "user" /\ messages[j].text = "agent?"
           /\ last'.op \in {"escalate", "stopBotFail"} => messages' = messages]_vars

\* C27 witness: an escalation has posted its two entries behind the bot's
\* message and the session is still active
C27_Witness ==
    /\ last.op = "escalationTimer"
    /\ sessionStatus = "active"
    /\ Len(messages) = 3
    /\ messages[1].sender = "bot"
    /\ messages[2].sender = "user" /\ messages[2].text = "agent?"
    /\ messages[3].sender = "admin" /\ messages[3].text = "alert"

\* C28: every connect of a socket joins the room that connectSocket was
\* called with, and no step changes the room of a socket
C28_ReconnectRejoinsSameRoom ==
    [][/\ last'.op = "connect"
          => \E i \in 1..MaxSockets :
                /\ socks[i].st = "connecting"
                /\ socks'[i].st = "connected"
                /\ last'.join = socks[i].room
                /\ last'.join # NoSession
       /\ \A i \in 1..MaxSockets :
             socks[i].st # "none" => socks'[i].room = socks[i].room]_vars

\* C28 witness: the only socket made so far delivered a message, lost its
\* connection and has connected again
C28_Witness ==
    /\ last.op = "connect"
    /\ Created(socks) = 1
    /\ socks[1].st = "connected"
    /\ last.join = socks[1].room
    /\ \E j \in 1..Len(messages) : messages[j].conversationId = socks[1].room

\* C29: a delivery whose playNotificationSound or sendLocalNotification
\* fails still inserts its message and leaves sessionStatus and sessionError
\* unchanged
C29_SideEffectFailuresSwallowed ==
    [][(last'.op = "deliver" /\ last'.fx # AllOk)
       => /\ Len(messages') = Len(messages) + 1
          /\ \E k \in 1..Len(messages') :
                /\ messages'[k].sender = last'.sender
                /\ messages'[k].timestamp = last'.at
                /\ messages'[k].conversationId = last'.room
          /\ sessionStatus' = sessionStatus
          /\ sessionError' = sessionError]_vars

\* C29 witness: a message was inserted although both side effects failed
C29_Witness ==
    /\ last.op = "deliver"
    /\ last.fx = [sound |-> "fails", notif |-> "rejects"]
    /\ \E j \in 1..Len(messages) :
          messages[j].conversationId = sessionId /\ messages[j].timestamp = last.at

\* C30: if every call that a flow waits for returns, every flow that is in
\* flight finishes, and whenever the effect has run and no flow is in flight
\* sessionStatus is active, closed or error and isLoadingSession is false
C30_FlowsSettle ==
    /\ [](Quiescent => /\ sessionStatus \in {"active", "closed", "error"}
                       /\ ~isLoadingSession)
    /\ \A i \in 1..MaxFlows : InFlight(flows[i]) ~> (flows[i].pc = "done")

\* C30 witness: a startup that failed, the retry and the re-run of the
\* effect have all finished, the retry's hydrate last
C30_Witness ==
    /\ Quiescent
    /\ \A i \in 1..MaxFlows : flows[i].pc = "done"
    /\ last.op = "fetchOk"
    /\ last.kind = "retry"
    /\ sessionStatus = "active"
    /\ ~isLoadingSession

\* C31: a realtime message inserted into a log that is sorted by timestamp
\* leaves a log that holds the entries it held, in their order, and the
\* message; the log is sorted, and the message stands behind every entry of
\* its own timestamp
C31_InsertionIsStable ==
    [][(/\ last'.op = "deliver"
        /\ messages' # messages
        /\ IsSorted(messages))
       => /\ Len(messages') = Len(messages) + 1
          /\ IsSorted(messages')
          /\ \E p \in 1..Len(messages') :
                /\ messages'[p].conversationId = last'.room
                /\ messages'[p].sender = last'.sender
                /\ messages'[p].timestamp = last'.at
                /\ \A j \in 1..Len(messages) :
                      messages[j] = messages'[IF j < p THEN j ELSE j + 1]
                /\ \A j \in 1..Len(messages') :
                      /\ j < p => messages'[j].timestamp <= last'.at
                      /\ j > p => messages'[j].timestamp > last'.at]_vars

\* C31 witness: a delivery put its message between an entry of the same
\* timestamp and a later one
C31_Witness ==
    /\ last.op = "deliver"
    /\ Len(messages) = 3
    /\ IsSorted(messages)
    /\ messages[2].conversationId = last.room
    /\ messages[2].timestamp = last.at
    /\ messages[1].timestamp = last.at
    /\ messages[1].conversationId = NoSession
    /\ messages[3].timestamp > last.at

\* C32: the duplicate test looks at the last entry only: an accepted realtime
\* message that has the id, or the text, sender and fileUrl, of an entry
\* before the last one, and does not match the last one, is inserted as one
\* more entry and invokes both side effects
C32_EarlierDuplicateIsInserted ==
    [][(last'.op = "deliver" /\ last'.back)
       => /\ Len(messages') = Len(messages) + 1
          /\ \E p \in 1..Len(messages') :
                /\ messages'[p].conversationId = last'.room
                /\ messages'[p].timestamp = last'.at
                /\ \A j \in 1..Len(messages) :
                      \E k \in 1..Len(messages') : k # p /\ messages'[k] = messages[j]
          /\ last'.sound = 1
          /\ last'.notif = 1]_vars

\* C32 witness: the log holds two entries of one id, the one loaded from the
\* history and the one a delivery has just inserted
C32_Witness ==
    /\ last.op = "deliver"
    /\ last.back
    /\ Len(messages) = 3
    /\ \E p \in 1..3 : \E q \in 1..3 :
          /\ p # q
          /\ messages[p].id = messages[q].id
          /\ messages[p].conversationId = NoSession
          /\ messages[q].conversationId = last.room

\* C33: a history record gets sender admin if it is a REPLY of a HUMAN
\* author, bot if it is a REPLY of another author, and user otherwise; an
\* accepted realtime event gets sender admin if its author is HUMAN and bot
\* otherwise, so no entry that came from the realtime channel has sender user
C33_SenderDerivation ==
    [][/\ last'.op = "fetchOk" =>
            /\ Len(messages') = Len(last'.hist)
            /\ \A k \in 1..Len(last'.hist) :
                  \E j \in 1..Len(messages') :
                      /\ messages'[j].id = last'.hist[k].time_created
                      /\ messages'[j].text = last'.hist[k].message
                      /\ messages'[j].sender =
                            (IF last'.hist[k].message_type # "REPLY" THEN "user"
                             ELSE IF last'.hist[k].author_type = "HUMAN" THEN "admin"
                             ELSE "bot")
       /\ (last'.op = "deliver" /\ messages' # messages) =>
            \E p \in 1..Len(messages') :
                /\ messages'[p].conversationId = last'.room
                /\ messages'[p].timestamp = last'.at
                /\ messages'[p].sender = (IF last'.author = "HUMAN" THEN "admin" ELSE "bot")
       /\ \A j \in 1..Len(messages') :
            messages'[j].conversationId # NoSession => messages'[j].sender # "user"
       /\ \A t \in Times : \A text \in Texts : \A atype \in {"HUMAN", "BOT"} :
            LoadedMessage(WireRecord(t, text, "QUERY", atype)).sender = "user"]_vars

\* C33 witness: a hydrate loaded a QUERY and a REPLY of HUMAN authors, the
\* first as a user's entry and the second as an agent's
C33_Witness ==
    /\ last.op = "fetchOk"
    /\ Len(last.hist) = 2
    /\ \A k \in 1..2 : last.hist[k].author_type = "HUMAN"
    /\ Len(messages) = 2
    /\ messages[1].sender = "admin"
    /\ messages[2].sender = "user"

\* C34: an event that sendMessageViaSocket emits carries the controller's
\* current sessionId as its room and goes out on the connection that was
\* opened for that session id; without a connected socket or a sessionId
\* nothing is emitted
C34_OutboundBoundToSession ==
    [][/\ (last'.op = "send" /\ last'.emits) =>
            /\ last'.room = sessionId
            /\ last'.room # NoSession
            /\ socketRef # NoSocket
            /\ socks[socketRef].st = "connected"
            /\ socks[socketRef].room = last'.room
       /\ (last'.op = "send" /\ CannotSend) => ~last'.emits
       /\ (last'.op = "uploadOk" /\ last'.emits = "send_file") =>
            /\ last'.room = sessionId
            /\ last'.room # NoSession
            /\ socketRef # NoSocket
            /\ socks[socketRef].room = last'.room
       /\ (last'.op = "picked" /\ last'.failed) => last'.emits = "none"]_vars

C36_OneSessionPerStartup ==
    [][last'.op = "createOk" =>
          /\ store = NoSession
          /\ sessionId = NoSession
          /\ nextSid' <= 2]_vars

\* C37: whenever no operation is in flight and sessionId is not null, the
\* stored id equals sessionId and every live connection is bound to it
C37_QuiescentBinding ==
    (Quiescent /\ sessionId # NoSession) =>
        /\ store = sessionId
        /\ \A i \in LiveSockets : socks[i].room = sessionId

\* C38: while an initiate-session, get-single-session or set-profile request
\* is outstanding, isLoadingSession is true
C38_LoadingCoversRequests ==
    (\E i \in 1..MaxFlows : flows[i].pc \in {"create", "fetch", "setprof"})
        => isLoadingSession

\* C39: a user's entry is in the log only if its event was emitted: a send
\* that sendMessageViaSocket refuses leaves no entry behind, and an upload
\* that fails takes the entry of its file out of the log
C39_UserEntryOnlyIfSent ==
    [][/\ (last'.op \in {"send", "picked"} /\ IsFailedSend(last')) => messages' = messages
       /\ (last'.op \in {"uploadOk", "uploadFail"} /\ IsFailedSend(last')
            /\ \E j \in 1..Len(messages) : messages[j].fileUrl = "data")
          => Len(messages') < Len(messages)]_vars

\* C40: a hydrate loads its history without a call of playNotificationSound
\* or sendLocalNotification and without writing or clearing the stored id,
\* and a failed setProfile leaves the profile flag, email, name and the log
\* as they were
C40_HydrateAndFailedProfileFrame ==
    [][/\ last'.op = "fetchOk" =>
            /\ messages' = loadedMessages(last'.hist)
            /\ SoundCalls(last') = 0
            /\ NotificationCalls(last') = 0
            /\ store' = store
       /\ last'.op = "profileFail" =>
            /\ sessionProfileExists' = sessionProfileExists
            /\ email' = email
            /\ name' = name
            /\ messages' = messages
            /\ store' = store]_vars

\* C40 witness: setProfile failed on a session whose hydrate had found a
\* profile and loaded a history with a bot's message
C40_Witness ==
    /\ last.op = "profileFail"
    /\ sessionProfileExists
    /\ email = "e"
    /\ \E j \in 1..Len(messages) : messages[j].sender = "bot"
    /\ store = sessionId

====
